---- MODULE Spec2Model ----
(***************************************************************************)
(* HeuristaDocs: the symbol graph of hdocs.py (definition pre-pass, symbol *)
(* collection, reference enrichment, merge, context bundle) and the        *)
(* lexical declaration window of api_doc_tool.py.                          *)
(*                                                                         *)
(* Strings are sequences of one-character strings, so that str.replace,    *)
(* str.strip, str.split and the "in" test on substrings are computed       *)
(* character by character as Python computes them.                         *)
(***************************************************************************)
EXTENDS Integers, Sequences, FiniteSets, TLC

\* ------------------------------------------------------------------ bounds
\* Number of source files found by the directory walk.
MaxUnits == 2
\* Number of fragments a raw type string of the canonicalization check is
\* put together from.
MaxFrags == 5
\* Number of lines of the file read in lexical mode.
MaxLines == 25

\* ----------------------------------------------------------------- strings
sConst == <<"c", "o", "n", "s", "t">>
sScope == <<":", ":">>

\* pat occurs in s at position i.
IsPrefixAt(s, pat, i) ==
    /\ i + Len(pat) - 1 <= Len(s)
    /\ \A k \in 1..Len(pat) : s[i + k - 1] = pat[k]

RECURSIVE ReplaceFrom(_, _, _)
ReplaceFrom(s, pat, i) ==
    IF i > Len(s) THEN <<>>
    ELSE IF IsPrefixAt(s, pat, i) THEN ReplaceFrom(s, pat, i + Len(pat))
    ELSE <<s[i]>> \o ReplaceFrom(s, pat, i + 1)

\* s.replace(pat, ''): one left-to-right pass over non-overlapping matches.
Replace(s, pat) == ReplaceFrom(s, pat, 1)

\* s.strip()
Strip(s) ==
    LET keep == {i \in 1..Len(s) : s[i] # " "}
    IN  IF keep = {} THEN <<>>
        ELSE LET lo == CHOOSE i \in keep : \A j \in keep : i <= j
                 hi == CHOOSE i \in keep : \A j \in keep : j <= i
             IN  SubSeq(s, lo, hi)

\* pat in s
Contains(s, pat) == \E i \in 1..Len(s) : IsPrefixAt(s, pat, i)

\* s.split('::')[0]
SplitHead(s) ==
    IF ~Contains(s, sScope) THEN s
    ELSE LET at == CHOOSE i \in 1..Len(s) :
                       /\ IsPrefixAt(s, sScope, i)
                       /\ \A j \in 1..(i - 1) : ~IsPrefixAt(s, sScope, j)
         IN  SubSeq(s, 1, at - 1)

\* t.replace('*', '').replace('&', '').replace('const', '').strip()
Canon(t) == Strip(Replace(Replace(Replace(t, <<"*">>), <<"&">>), sConst))

RECURSIVE Concat(_)
Concat(ss) == IF ss = <<>> THEN <<>> ELSE Head(ss) \o Concat(Tail(ss))

\* ------------------------------------------------ names and type spellings
nP == <<"P">>
nQ == <<"Q">>
nL == <<"L">>
nM == <<"M">>
nR == <<"R">>
nE == <<"E">>
nW == <<"W">>
nZ == <<"Z">>
nd == <<"d">>
nm == <<"m">>
tInt == <<"i", "n", "t">>
tVoid == <<"v", "o", "i", "d">>
tFloat == <<"f", "l", "o", "a", "t">>
tUnsignedInt == <<"u", "n", "s", "i", "g", "n", "e", "d", " ", "i", "n", "t">>
sStruct == <<"s", "t", "r", "u", "c", "t", " ">>
tStructP == sStruct \o <<"P">>
tPptr == <<"P", " ", "*">>
tConstPref == sConst \o <<" ", "P", " ", "&">>
tConstPptr == sConst \o <<" ", "P", " ", "*">>

\* ------------------------------------------------------------ parsed units
\* A unit is the cursor tree that index.parse returns, flattened in the
\* pre-order in which collect_defs and visit walk it.  A node carries what the
\* two walks read from a cursor: kind, spelling, is_user_file(node),
\* is_definition(), the spelling of semantic_parent, result_type.spelling, the
\* (name, type spelling) pairs of get_arguments() or of its FIELD_DECL
\* children, underlying_typedef_type.spelling, and the spellings of the
\* TYPE_REF cursors below its COMPOUND_STMT.  Children of a node outside the
\* base directory are not walked and so are not part of the sequence.
TypeKinds == {"ENUM_DECL", "STRUCT_DECL", "CLASS_DECL", "UNION_DECL", "TYPEDEF_DECL"}
FunctionKinds == {"FUNCTION_DECL", "CXX_METHOD"}

Node(kind, spelling) ==
    [kind |-> kind, spelling |-> spelling, user |-> TRUE, is_definition |-> TRUE,
     parent |-> <<>>, result_type |-> <<>>, arguments |-> <<>>, fields |-> <<>>,
     underlying |-> <<>>, type_refs |-> {}]

RecordDecl(kind, spelling, fields) == [Node(kind, spelling) EXCEPT !.fields = fields]
TypedefDecl(spelling, underlying) ==
    [Node("TYPEDEF_DECL", spelling) EXCEPT !.underlying = underlying]
FunctionDef(kind, parent, spelling, ret, args, refs) ==
    [Node(kind, spelling) EXCEPT !.parent = parent, !.result_type = ret,
                                 !.arguments = args, !.type_refs = refs]
Prototype(n) == [n EXCEPT !.is_definition = FALSE]
Outside(n) == [n EXCEPT !.user = FALSE]

Unit(parses, nodes) == [parses |-> parses, nodes |-> nodes]

StructP == RecordDecl("STRUCT_DECL", nP, << <<"x", tInt>>, <<"y", tInt>> >>)
StructQ == RecordDecl("STRUCT_DECL", nQ, <<>>)
FunctionD == FunctionDef("FUNCTION_DECL", <<>>, nd, tFloat,
                         << <<"a", nP>>, <<"b", nP>> >>, {})

\* struct P { int x; int y; };
PointH == Unit(TRUE, <<StructP>>)
\* #include "point.h" (inside the base directory); float d(P a, P b) {...}
DistCpp == Unit(TRUE, <<StructP, FunctionD>>)
\* the same in C: float d(struct P a, struct P b) {...}
DistC == Unit(TRUE, <<StructP,
                      FunctionDef("FUNCTION_DECL", <<>>, nd, tFloat,
                                  << <<"a", tStructP>>, <<"b", tStructP>> >>, {})>>)
\* the same function, with P declared by a header outside the base directory
DistOutside == Unit(TRUE, <<Outside(StructP), FunctionD>>)
\* struct L { P *a; Q b; }; with P and Q declared outside the base directory
LineCpp == Unit(TRUE, <<Outside(StructP), Outside(StructQ),
                        RecordDecl("STRUCT_DECL", nL, << <<"a", tPptr>>, <<"b", nQ>> >>)>>)
\* typedef P R; typedef const P *M; with P declared outside the base directory
AliasOutside == Unit(TRUE, <<Outside(StructP), TypedefDecl(nR, nP),
                             TypedefDecl(nM, tConstPptr)>>)
\* struct P { P *n; }; typedef struct P P;
ListH == Unit(TRUE, <<RecordDecl("STRUCT_DECL", nP, << <<"n", tPptr>> >>),
                      TypedefDecl(nP, tStructP)>>)
\* struct P {...}; typedef unsigned int M; typedef const P &R;
AliasH == Unit(TRUE, <<StructP, TypedefDecl(nM, tUnsignedInt),
                       TypedefDecl(nR, tConstPref)>>)
\* struct P {...}; class L { P *a; P *m(const P &p) { P q; L r; Z z; ... } };
\* float d(P a, P b);
ShapeCpp == Unit(TRUE, <<StructP,
                         RecordDecl("CLASS_DECL", nL, << <<"a", tPptr>> >>),
                         FunctionDef("CXX_METHOD", nL, nm, tPptr,
                                     << <<"p", tConstPref>> >>, {nP, nL, nZ}),
                         Prototype(FunctionD)>>)
\* struct Q {}; struct P { Q q; }; void d(P a) {...}
HopH == Unit(TRUE, <<StructQ,
                     RecordDecl("STRUCT_DECL", nP, << <<"q", nQ>> >>),
                     FunctionDef("FUNCTION_DECL", <<>>, nd, tVoid, << <<"a", nP>> >>, {})>>)
\* enum E {...}; union W { E e; P p; }; int v;
EnumH == Unit(TRUE, <<Node("ENUM_DECL", nE),
                      RecordDecl("UNION_DECL", nW, << <<"e", nE>>, <<"p", nP>> >>),
                      Node("VAR_DECL", <<"v">>)>>)
\* a file libclang cannot load
Broken == Unit(FALSE, <<StructP, FunctionD>>)

UnitUniverse == {PointH, DistCpp, DistC, DistOutside, LineCpp, AliasOutside, ListH,
                 AliasH, ShapeCpp, HopH, EnumH, Broken}

\* The names a function body can mention, for the order in which a Python
\* set of them is listed.
BodyNames == UNION {UNION {u.nodes[i].type_refs : i \in 1..Len(u.nodes)} : u \in UnitUniverse}
SetOrders(S) == {f \in [1..Cardinality(S) -> S] : \A i, j \in 1..Cardinality(S) : f[i] = f[j] => i = j}
\* list(S): the elements of S in the iteration order ord.
ListOfSet(S, ord) == SelectSeq(ord, LAMBDA x : x \in S)

\* ------------------------------------------------------------- the symbols
\* A symbol is the dict that visit appends.  The keys a kind does not have
\* are empty here and has_refs tells whether the dict has the key
\* 'type_references'; oid is the identity of the dict object (the unit and
\* the node it was made from).  The keys 'body', 'methods' and 'enumerators'
\* are read by no step after collection and are left out.
Symbol(type, name, oid) ==
    [type |-> type, name |-> name, return_type |-> <<>>, parameters |-> <<>>,
     fields |-> <<>>, underlying |-> <<>>, type_references |-> <<>>,
     has_refs |-> FALSE, oid |-> oid]

\* First pass: collect type definitions.
CollectDefs(nodes) ==
    {nodes[i].spelling : i \in {j \in 1..Len(nodes) :
        /\ nodes[j].user
        /\ nodes[j].kind \in TypeKinds
        /\ nodes[j].spelling # <<>>}}

\* extract_body_and_refs: the TYPE_REF spellings of the body that are definitions.
ExtractBodyAndRefs(node, definitions) == {r \in node.type_refs : r \in definitions}

\* visit appends a symbol for this node.
Emits(node) ==
    /\ node.user
    /\ node.kind \in TypeKinds \cup FunctionKinds
    /\ node.kind \in FunctionKinds => node.is_definition

KindTag(kind) ==
    CASE kind = "ENUM_DECL" -> "enum"
      [] kind = "STRUCT_DECL" -> "struct"
      [] kind = "CLASS_DECL" -> "class"
      [] kind = "UNION_DECL" -> "union"
      [] kind = "TYPEDEF_DECL" -> "typedef"
      [] OTHER -> "function"

\* The symbol visit appends for a node.
Visit(node, definitions, ord, oid) ==
    IF node.kind \in FunctionKinds
    THEN [Symbol("function",
                 (IF node.parent # <<>> THEN node.parent \o sScope ELSE <<>>) \o node.spelling,
                 oid)
            EXCEPT !.return_type = node.result_type,
                   !.parameters = node.arguments,
                   !.type_references = ListOfSet(ExtractBodyAndRefs(node, definitions), ord),
                   !.has_refs = TRUE]
    ELSE [Symbol(KindTag(node.kind), node.spelling, oid)
            EXCEPT !.fields = IF node.kind = "ENUM_DECL" THEN <<>> ELSE node.fields,
                   !.underlying = node.underlying]

RECURSIVE VisitFrom(_, _, _, _, _)
VisitFrom(nodes, i, definitions, ord, u) ==
    IF i > Len(nodes) THEN <<>>
    ELSE (IF Emits(nodes[i]) THEN <<Visit(nodes[i], definitions, ord, <<u, i>>)>> ELSE <<>>)
         \o VisitFrom(nodes, i + 1, definitions, ord, u)

\* ---------------------------------------------------- reference enrichment
Range(s) == {s[i] : i \in 1..Len(s)}
Types(pairs) == [i \in 1..Len(pairs) |-> pairs[i][2]]

\* A dedup that keeps each name at its last occurrence.
RECURSIVE DictFromKeysKeepLast(_)
DictFromKeysKeepLast(names) ==
    IF names = <<>> THEN <<>>
    ELSE IF Head(names) \in Range(Tail(names)) THEN DictFromKeysKeepLast(Tail(names))
    ELSE <<Head(names)>> \o DictFromKeysKeepLast(Tail(names))

\* list(dict.fromkeys(names)): each name once, in the order of first insertion.
RECURSIVE DictFromKeys(_)
DictFromKeys(names) ==
    IF names = <<>> THEN <<>>
    ELSE LET front == DictFromKeys(SubSeq(names, 1, Len(names) - 1))
             last == names[Len(names)]
         IN  IF last \in Range(front) THEN front ELSE Append(front, last)

\* A lookup by name in which the first symbol of a name wins.
DictByNameFirstWins(symbols) ==
    [n \in {symbols[i].name : i \in 1..Len(symbols)} |->
        symbols[CHOOSE i \in 1..Len(symbols) :
                    /\ symbols[i].name = n
                    /\ \A j \in 1..(i - 1) : symbols[j].name # n]]

\* {s['name']: s for s in symbols} as a lookup: the last symbol of a name wins.
DictByName(symbols) ==
    [n \in {symbols[i].name : i \in 1..Len(symbols)} |->
        symbols[CHOOSE i \in 1..Len(symbols) :
                    /\ symbols[i].name = n
                    /\ \A j \in (i + 1)..Len(symbols) : symbols[j].name # n]]

\* The canonical names of the type spellings, with no membership test.
RECURSIVE MatchesUnchecked(_, _)
MatchesUnchecked(types, definitions) ==
    IF types = <<>> THEN <<>>
    ELSE <<Canon(Head(types))>> \o MatchesUnchecked(Tail(types), definitions)

\* The appends of one "for ... base = canon(type); if base in definitions".
RECURSIVE Matches(_, _)
Matches(types, definitions) ==
    IF types = <<>> THEN <<>>
    ELSE (IF Canon(Head(types)) \in definitions THEN <<Canon(Head(types))>> ELSE <<>>)
         \o Matches(Tail(types), definitions)

\* What the enrichment loop appends to s['type_references'].
Appended(s, symbols, definitions) ==
    LET local == DictByName(symbols)
        cls == SplitHead(s.name)
    IN  CASE s.type = "function" ->
                 Matches(<<s.return_type>>, definitions)
                 \o Matches(Types(s.parameters), definitions)
                 \o (IF Contains(s.name, sScope) /\ cls \in DOMAIN local
                     THEN Matches(Types(local[cls].fields), definitions)
                     ELSE <<>>)
          [] s.type = "typedef" -> Matches(<<s.underlying>>, definitions)
          [] s.type \in {"struct", "class", "union"} ->
                 Matches(Types(s.fields), definitions)
          [] OTHER -> <<>>

\* s['type_references'] before the final dict.fromkeys.
RawReferences(s, symbols, definitions) ==
    s.type_references \o Appended(s, symbols, definitions)

EnrichSymbol(s, symbols, definitions) ==
    LET has == s.has_refs \/ Appended(s, symbols, definitions) # <<>>
    IN  [s EXCEPT !.has_refs = has,
                  !.type_references =
                      IF has THEN DictFromKeys(RawReferences(s, symbols, definitions))
                      ELSE <<>>]

\* A parse failure that is not caught and leaves the caller with the
\* symbols of the tree read so far.
ExtractSymbolsNoCatch(unit, ord, u) ==
    LET definitions == CollectDefs(unit.nodes)
        collected == VisitFrom(unit.nodes, 1, definitions, ord, u)
    IN  [raised |-> ~unit.parses,
         definitions |-> definitions,
         pre |-> [i \in 1..Len(collected) |->
                     RawReferences(collected[i], collected, definitions)],
         symbols |-> [i \in 1..Len(collected) |->
                         EnrichSymbol(collected[i], collected, definitions)]]

\* extract_symbols_from_file for the u-th file of the walk.  raised: an
\* exception leaves the function; pre: each symbol's type_references before
\* the deduplication.
ExtractSymbolsFromFile(unit, ord, u) ==
    IF ~unit.parses
    THEN [raised |-> FALSE, definitions |-> {}, pre |-> <<>>, symbols |-> <<>>]
    ELSE LET definitions == CollectDefs(unit.nodes)
             collected == VisitFrom(unit.nodes, 1, definitions, ord, u)
         IN  [raised |-> FALSE,
              definitions |-> definitions,
              pre |-> [i \in 1..Len(collected) |->
                          RawReferences(collected[i], collected, definitions)],
              symbols |-> [i \in 1..Len(collected) |->
                              EnrichSymbol(collected[i], collected, definitions)]]

\* ------------------------------------------------------------------- merge
\* The dict unique is the sequence of its (key, value) items in insertion order.
Key(s) == <<s.type, s.name>>
HasKey(unique, key) == \E i \in 1..Len(unique) : unique[i][1] = key

\* A merge in which the last symbol of a key wins.
MergeLastWins(unique, s) ==
    IF HasKey(unique, Key(s))
    THEN [i \in 1..Len(unique) |->
             IF unique[i][1] = Key(s) THEN <<Key(s), s>> ELSE unique[i]]
    ELSE Append(unique, <<Key(s), s>>)

\* if key not in unique: unique[key] = s
Merge(unique, s) ==
    IF HasKey(unique, Key(s)) THEN unique ELSE Append(unique, <<Key(s), s>>)

\* list(unique.values())
Values(unique) == [i \in 1..Len(unique) |-> unique[i][2]]

\* ------------------------------------------------------------------ bundle
\* [symbol_map[n] for n in names if n in symbol_map]
RECURSIVE Resolve(_, _)
Resolve(names, symbol_map) ==
    IF names = <<>> THEN <<>>
    ELSE (IF Head(names) \in DOMAIN symbol_map THEN <<symbol_map[Head(names)]>> ELSE <<>>)
         \o Resolve(Tail(names), symbol_map)

\* A bundle that also pulls in what the referenced symbols reference.
BuildDefsTwoHops(symbol, symbol_map) ==
    LET one == Resolve(symbol.type_references, symbol_map)
    IN  <<symbol>> \o one
        \o Concat([i \in 1..Len(one) |-> Resolve(one[i].type_references, symbol_map)])
        \o Resolve(Types(symbol.fields), symbol_map)
        \o (IF symbol.type = "typedef" THEN Resolve(<<symbol.underlying>>, symbol_map) ELSE <<>>)

\* defs of build_prompt_for_symbol, before the deduplication by name.
BuildDefs(symbol, symbol_map) ==
    <<symbol>>
    \o Resolve(symbol.type_references, symbol_map)
    \o Resolve(Types(symbol.fields), symbol_map)
    \o (IF symbol.type = "typedef" THEN Resolve(<<symbol.underlying>>, symbol_map) ELSE <<>>)

\* list({d['name']: d for d in defs}.values()): a name keeps the position of
\* its first insertion and the value of its last.
UniqueDefs(defs) ==
    LET firsts == {i \in 1..Len(defs) : \A j \in 1..(i - 1) : defs[j].name # defs[i].name}
        byName == DictByName(defs)
        RECURSIVE From(_)
        From(i) == IF i > Len(defs) THEN <<>>
                   ELSE (IF i \in firsts THEN <<byName[defs[i].name]>> ELSE <<>>)
                        \o From(i + 1)
    IN  From(1)

\* ------------------------------------------------------------ lexical mode
\* The lines after the declared line that the window takes in.
WindowExtra == 10
\* The lines of a definition snippet.
ContextLines == 5
ContextKinds == {"typedef_decl", "enum_decl", "macro_definition"}

\* s[a:b] for 0 <= a, 0 <= b
Slice(s, a, b) == SubSeq(s, a + 1, IF b < Len(s) THEN b ELSE Len(s))

\* A window that ends WindowExtra lines after the declared line, exclusive.
SnippetLinesShort(lines, info) == Slice(lines, info.line - 1, info.line + WindowExtra - 1)

\* lines[info["line"] - 1 : info["line"] + 10]
SnippetLines(lines, info) == Slice(lines, info.line - 1, info.line + WindowExtra)

\* ''.join(lines).strip(): the text without the blank lines at its two ends.
StripLines(lines) ==
    LET keep == {i \in 1..Len(lines) : ~lines[i].blank}
    IN  IF keep = {} THEN <<>>
        ELSE LET lo == CHOOSE i \in keep : \A j \in keep : i <= j
                 hi == CHOOSE i \in keep : \A j \in keep : j <= i
             IN  SubSeq(lines, lo, hi)

\* The definition snippets of the typedef, enum and macro names in the window.
FullContext(lines, window, cache) ==
    {StripLines(Slice(lines, cache[t].line - 1, cache[t].line - 1 + ContextLines)) :
        t \in {x \in UNION {window[i].tokens : i \in 1..Len(window)} :
                   x \in DOMAIN cache /\ cache[x].kind \in ContextKinds}}

\* ------------------------------------------------------------------- state
VARIABLES
    units,          \* the parsed files, in the order of the directory walk
    pc,             \* where main is: "scan", "merge", "doc", "done", "crashed"
    ui,             \* files scanned so far
    all_symbols,    \* scan_directory: all_symbols
    definitions,    \* per scanned file, the definitions set of its pre-pass
    pre_refs,       \* per symbol of all_symbols, its references before dict.fromkeys
    unique,         \* main: the dict unique
    mi,             \* symbols merged so far
    symbols,        \* main: symbols, after the merge
    symbol_map,     \* main: symbol_map
    ti,             \* index in symbols of the last symbol a prompt was built for
    unique_defs,    \* build_prompt_for_symbol: unique_defs of that symbol
    raw,            \* a raw type string
    once,           \* its canonical form
    twice,          \* the canonical form of its canonical form
    cpc,            \* canonicalizations done
    file,           \* lexical mode: the lines of the file
    symbol_cache,   \* lexical mode: symbol_cache
    wanted,         \* lexical mode: the symbol asked for
    snippet_lines,  \* get_declaration: snippet_lines
    declaration,    \* get_declaration: what it returns
    lpc             \* lexical mode: "ask", "got"

mainVars == <<units, pc, ui, all_symbols, definitions, pre_refs, unique, mi,
              symbols, symbol_map, ti, unique_defs>>
canonVars == <<raw, once, twice, cpc>>
lexVars == <<file, symbol_cache, wanted, snippet_lines, declaration, lpc>>
vars == <<mainVars, canonVars, lexVars>>

NoMap == [n \in {} |-> n]

MainIdle ==
    /\ units = <<>> /\ pc = "idle" /\ ui = 0 /\ all_symbols = <<>>
    /\ definitions = <<>> /\ pre_refs = <<>> /\ unique = <<>> /\ mi = 0
    /\ symbols = <<>> /\ symbol_map = NoMap /\ ti = 0 /\ unique_defs = <<>>
CanonIdle == raw = <<>> /\ once = <<>> /\ twice = <<>> /\ cpc = "idle"
LexIdle ==
    /\ file = <<>> /\ symbol_cache = NoMap /\ wanted = <<>>
    /\ snippet_lines = <<>> /\ declaration = <<>> /\ lpc = "idle"

\* ------------------------------------------------------- hdocs.py: main
UnitSeqs == UNION {[1..n -> UnitUniverse] : n \in 1..MaxUnits}

Init ==
    /\ units \in UnitSeqs
    /\ pc = "scan" /\ ui = 0 /\ all_symbols = <<>>
    /\ definitions = <<>> /\ pre_refs = <<>> /\ unique = <<>> /\ mi = 0
    /\ symbols = <<>> /\ symbol_map = NoMap /\ ti = 0 /\ unique_defs = <<>>
    /\ CanonIdle /\ LexIdle

\* scan_directory: one file of the walk.
ScanFile ==
    /\ pc = "scan" /\ ui < Len(units)
    /\ \E ord \in SetOrders(BodyNames) :
         LET syms == ExtractSymbolsFromFile(units[ui + 1], ord, ui + 1)
         IN  IF syms.raised
             THEN /\ pc' = "crashed"
                  /\ UNCHANGED <<ui, all_symbols, definitions, pre_refs>>
             ELSE /\ all_symbols' = all_symbols \o syms.symbols
                  /\ definitions' = Append(definitions, syms.definitions)
                  /\ pre_refs' = pre_refs \o syms.pre
                  /\ ui' = ui + 1
                  /\ pc' = pc
    /\ UNCHANGED <<units, unique, mi, symbols, symbol_map, ti, unique_defs>>
    /\ UNCHANGED <<canonVars, lexVars>>

\* scan_directory returns; main starts the deduplication loop.
ScanReturn ==
    /\ pc = "scan" /\ ui = Len(units)
    /\ pc' = "merge"
    /\ UNCHANGED <<units, ui, all_symbols, definitions, pre_refs, unique, mi,
                   symbols, symbol_map, ti, unique_defs>>
    /\ UNCHANGED <<canonVars, lexVars>>

\* main: one iteration of "for s in symbols" of the deduplication.
MergeStep ==
    /\ pc = "merge" /\ mi < Len(all_symbols)
    /\ unique' = Merge(unique, all_symbols[mi + 1])
    /\ mi' = mi + 1
    /\ UNCHANGED <<units, pc, ui, all_symbols, definitions, pre_refs,
                   symbols, symbol_map, ti, unique_defs>>
    /\ UNCHANGED <<canonVars, lexVars>>

\* main: symbols = list(unique.values()) and the symbol map.
BuildSymbolMap ==
    /\ pc = "merge" /\ mi = Len(all_symbols)
    /\ symbols' = Values(unique)
    /\ symbol_map' = DictByName(Values(unique))
    /\ pc' = "doc"
    /\ UNCHANGED <<units, ui, all_symbols, definitions, pre_refs, unique, mi,
                   ti, unique_defs>>
    /\ UNCHANGED <<canonVars, lexVars>>

\* main: one iteration of "for sym in symbols": build_prompt_for_symbol.
BuildPromptForSymbol ==
    /\ pc = "doc" /\ ti < Len(symbols)
    /\ unique_defs' = UniqueDefs(BuildDefs(symbols[ti + 1], symbol_map))
    /\ ti' = ti + 1
    /\ UNCHANGED <<units, pc, ui, all_symbols, definitions, pre_refs, unique, mi,
                   symbols, symbol_map>>
    /\ UNCHANGED <<canonVars, lexVars>>

\* main: the closing tags are written.
Finish ==
    /\ pc = "doc" /\ ti = Len(symbols)
    /\ pc' = "done"
    /\ UNCHANGED <<units, ui, all_symbols, definitions, pre_refs, unique, mi,
                   symbols, symbol_map, ti, unique_defs>>
    /\ UNCHANGED <<canonVars, lexVars>>

Next == ScanFile \/ ScanReturn \/ MergeStep \/ BuildSymbolMap \/ BuildPromptForSymbol \/ Finish

Spec == Init /\ [][Next]_vars

\* ------------------------------------------- canonicalization on its own
Fragments == {sConst, <<"c", "o">>, <<"n", "s", "t">>, <<" ">>, <<"F", "o", "o">>,
              <<"*">>, <<"&">>}
RawTypes == {Concat(f) : f \in UNION {[1..n -> Fragments] : n \in 0..MaxFrags}}

InitCanon ==
    /\ raw \in RawTypes
    /\ once = <<>> /\ twice = <<>> /\ cpc = "raw"
    /\ MainIdle /\ LexIdle

\* base = raw.replace(...)...strip()
CanonOnce ==
    /\ cpc = "raw"
    /\ once' = Canon(raw)
    /\ cpc' = "once"
    /\ UNCHANGED <<raw, twice, mainVars, lexVars>>

\* the same expression applied to its own result
CanonTwice ==
    /\ cpc = "once"
    /\ twice' = Canon(once)
    /\ cpc' = "twice"
    /\ UNCHANGED <<raw, once, mainVars, lexVars>>

NextCanon == CanonOnce \/ CanonTwice

SpecCanon == InitCanon /\ [][NextCanon]_vars

\* ------------------------------------------- api_doc_tool.py: get_declaration
\* One file of n lines.  The wanted symbol f is declared at line decl, whose
\* text holds its name; the enum Color is declared at line def and named at
\* line tok (0: nowhere); line blank (0: none) is empty.
Lines(n, decl, tok, blank) ==
    [i \in 1..n |->
        [no |-> i,
         blank |-> (i = blank),
         tokens |-> (IF i = decl THEN {"f"} ELSE {}) \cup (IF i = tok THEN {"Color"} ELSE {})]]

InitLex ==
    /\ \E n \in 1..MaxLines, kind \in {"function_decl", "enum_decl"} :
         \E decl \in 1..n, tok \in 0..n, def \in {1, n}, blank \in 0..n :
            /\ blank \notin {decl, tok} \/ blank = 0
            /\ blank \in {0, decl + 1, n}
            /\ file = Lines(n, decl, tok, blank)
            /\ symbol_cache = [x \in {"f", "Color"} |->
                                  IF x = "f" THEN [kind |-> kind, line |-> decl]
                                  ELSE [kind |-> "enum_decl", line |-> def]]
    /\ wanted = "f"
    /\ snippet_lines = <<>> /\ declaration = <<>> /\ lpc = "ask"
    /\ MainIdle /\ CanonIdle

\* get_declaration(wanted)
GetDeclaration ==
    /\ lpc = "ask"
    /\ snippet_lines' = SnippetLines(file, symbol_cache[wanted])
    /\ declaration' =
          [context |-> FullContext(file, SnippetLines(file, symbol_cache[wanted]), symbol_cache),
           snippet |-> StripLines(SnippetLines(file, symbol_cache[wanted]))]
    /\ lpc' = "got"
    /\ UNCHANGED <<file, symbol_cache, wanted, mainVars, canonVars>>

NextLex == GetDeclaration

SpecLex == InitLex /\ [][NextLex]_vars

\* ------------------------------------------------------------- properties
Target == symbols[ti]
Merged == pc \in {"doc", "done"}

\* C1: the context bundle built for a symbol has that symbol, the very dict
\* passed in as target, as its first element.
BundleStartsWithTarget == ti > 0 => unique_defs[1] = Target

\* The first occurrence of a (kind, name) key in a sequence of symbols.
FirstWithKey(syms, key) ==
    syms[CHOOSE i \in 1..Len(syms) :
             /\ Key(syms[i]) = key
             /\ \A j \in 1..(i - 1) : Key(syms[j]) # key]

\* After mi symbols have been processed, unique holds one item per key of
\* those symbols, and the value of each is the earliest symbol of its key.
MergedPrefixKeepsFirst ==
    LET done == SubSeq(all_symbols, 1, mi)
    IN  /\ \A k \in 1..Len(done) : HasKey(unique, Key(done[k]))
        /\ \A i \in 1..Len(unique) :
              /\ \E k \in 1..Len(done) : Key(done[k]) = unique[i][1]
              /\ unique[i][2] = FirstWithKey(done, unique[i][1])
              /\ \A j \in 1..Len(unique) : unique[j][1] = unique[i][1] => j = i
        /\ Len(unique) = Cardinality({Key(done[k]) : k \in 1..Len(done)})
        /\ Merged => mi = Len(all_symbols) /\ symbols = Values(unique)

\* C2: during the merge a registered (kind, name) key is never removed and
\* its symbol never replaced; each key maps to the earliest symbol of that
\* key in scan order, later ones are dropped, and the table has exactly one
\* entry per distinct key.
MergeKeepsFirst ==
    /\ []MergedPrefixKeepsFirst
    /\ [][\A i \in 1..Len(unique) : i <= Len(unique') /\ unique'[i] = unique[i]]_vars

\* A later symbol with a registered key has been dropped by a finished merge.
MergeDroppedDuplicate ==
    /\ Merged
    /\ \E k \in 1..Len(all_symbols) :
          /\ \A i \in 1..Len(unique) : unique[i][2] # all_symbols[k]
          /\ FirstWithKey(all_symbols, Key(all_symbols[k])).fields # all_symbols[k].fields

\* The names one step away from a symbol.
DirectNames(t) ==
    Range(t.type_references) \cup Range(Types(t.fields))
    \cup (IF t.type = "typedef" THEN {t.underlying} ELSE {})

\* C3: every member of a bundle other than the target is named by the
\* target's own type_references, field types or underlying type; what only
\* a referenced symbol references is not in the bundle.
OneHopOnly ==
    ti > 0 =>
      /\ \A k \in 1..Len(unique_defs) :
            unique_defs[k] # Target => unique_defs[k].name \in DirectNames(Target)
      /\ \A k \in 1..Len(unique_defs) : \A n \in Range(unique_defs[k].type_references) :
            (unique_defs[k] # Target /\ n \notin DirectNames(Target) /\ n # Target.name)
               => \A m \in 1..Len(unique_defs) : unique_defs[m].name # n

\* A bundle with a member whose own reference resolves in the table and is
\* not referenced by the target.
SecondHopExists ==
    /\ ti > 0
    /\ \E k \in 1..Len(unique_defs) : \E n \in Range(unique_defs[k].type_references) :
          /\ unique_defs[k] # Target
          /\ n \in DOMAIN symbol_map
          /\ n \notin DirectNames(Target) /\ n # Target.name

\* The name visit gives a function node.
QualifiedName(f) == (IF f.parent # <<>> THEN f.parent \o sScope ELSE <<>>) \o f.spelling

\* C4: a struct T defined in one unit and a function f with parameters of
\* type T (spelled T, or struct T as in C) defined in another: the table
\* holds both and the bundle of f is exactly [f, T].
ScenarioOne ==
    \A a, b \in 1..Len(units) :
      \A i \in 1..Len(units[a].nodes), j \in 1..Len(units[b].nodes) :
        LET T == units[a].nodes[i]
            f == units[b].nodes[j]
        IN  ( /\ a # b /\ units[a].parses /\ units[b].parses
              /\ T.user /\ T.kind = "STRUCT_DECL"
              /\ f.user /\ f.kind \in FunctionKinds /\ f.is_definition
              /\ f.arguments # <<>>
              /\ \A p \in 1..Len(f.arguments) :
                    f.arguments[p][2] \in {T.spelling, sStruct \o T.spelling} )
            => /\ Merged =>
                    /\ \E k \in 1..Len(symbols) :
                          symbols[k].type = "struct" /\ symbols[k].name = T.spelling
                    /\ \E k \in 1..Len(symbols) :
                          symbols[k].type = "function" /\ symbols[k].name = QualifiedName(f)
               /\ (ti > 0 /\ Target.type = "function" /\ Target.name = QualifiedName(f))
                    => /\ Len(unique_defs) = 2
                       /\ unique_defs[1] = Target
                       /\ unique_defs[2].type = "struct"
                       /\ unique_defs[2].name = T.spelling

InBundle(n) == \E k \in 1..Len(unique_defs) : unique_defs[k].name = n

\* C5: the bundle of a struct, class or union holds the symbol of every
\* field whose canonicalized type name is a name of the merged table, and
\* the bundle of a typedef that of its canonicalized underlying type.
FieldTypesResolve ==
    ti > 0 =>
      /\ Target.type \in {"struct", "class", "union"} =>
            \A i \in 1..Len(Target.fields) :
               Canon(Target.fields[i][2]) \in DOMAIN symbol_map
                  => InBundle(Canon(Target.fields[i][2]))
      /\ Target.type = "typedef" =>
            (Canon(Target.underlying) \in DOMAIN symbol_map
                => InBundle(Canon(Target.underlying)))

\* C6: canon(canon(x)) = canon(x) for every raw type string x, and
\* canon("const Foo*&") = "Foo".
CanonIdempotent ==
    /\ cpc = "twice" => twice = once
    /\ (cpc # "raw" /\ raw = sConst \o <<" ", "F", "o", "o", "*", "&">>)
          => once = <<"F", "o", "o">>

FirstIndex(names, x) ==
    CHOOSE i \in 1..Len(names) : names[i] = x /\ \A j \in 1..(i - 1) : names[j] # x

\* C7: after enrichment no type_references holds a name twice, and each
\* surviving name stands where it first occurred before the deduplication.
ReferencesStableDedup ==
    \A k \in 1..Len(all_symbols) :
       LET refs == all_symbols[k].type_references
           pre == pre_refs[k]
       IN  /\ \A i, j \in 1..Len(refs) : refs[i] = refs[j] => i = j
           /\ Range(refs) = Range(pre)
           /\ \A i, j \in 1..Len(refs) :
                 i < j => FirstIndex(pre, refs[i]) < FirstIndex(pre, refs[j])

\* A symbol whose references named a type more than once and name two types.
DuplicateReferencesDropped ==
    \E k \in 1..Len(all_symbols) :
       /\ Len(all_symbols[k].type_references) >= 2
       /\ Len(pre_refs[k]) > Len(all_symbols[k].type_references)

\* C8: the window get_declaration reads for a symbol declared at line L of
\* a file of N lines is lines L..min(L + 10, N): it starts at the declared
\* line, has at most eleven lines, and is lines 10..20 for L = 10, N = 25.
LexicalWindow ==
    lpc = "got" =>
      LET L == symbol_cache[wanted].line
          N == Len(file)
          last == IF L + 10 < N THEN L + 10 ELSE N
      IN  /\ Len(snippet_lines) = last - L + 1
          /\ \A i \in 1..Len(snippet_lines) : snippet_lines[i] = file[L + i - 1]
          /\ snippet_lines[1].no = L
          /\ Len(snippet_lines) <= 11
          /\ (L = 10 /\ N = 25) =>
                [i \in 1..Len(snippet_lines) |-> snippet_lines[i].no]
                   = <<10, 11, 12, 13, 14, 15, 16, 17, 18, 19, 20>>

\* The window of a symbol declared at line 10 of a file of 25 lines.
WindowOfLineTen ==
    lpc = "got" /\ symbol_cache[wanted].line = 10 /\ Len(file) = 25

OfUnit(u) == SelectSeq(all_symbols, LAMBDA x : x.oid[1] = u)

\* C9: a unit that fails to parse contributes no symbol, no error leaves
\* the scan, and every other unit is processed and contributes what its
\* extraction yields.
ParseFailureSkipsUnit ==
    /\ pc # "crashed"
    /\ pc # "scan" => ui = Len(units)
    /\ \A k \in 1..Len(all_symbols) : all_symbols[k].oid[1] \in 1..ui
    /\ \A k \in 1..(Len(all_symbols) - 1) :
          all_symbols[k].oid[1] <= all_symbols[k + 1].oid[1]
    /\ \A u \in 1..ui :
          IF units[u].parses
          THEN /\ Len(OfUnit(u)) = Cardinality({i \in 1..Len(units[u].nodes) :
                                                    Emits(units[u].nodes[i])})
               /\ \A k \in 1..Len(OfUnit(u)) :
                     /\ Emits(units[u].nodes[OfUnit(u)[k].oid[2]])
                     /\ k > 1 => OfUnit(u)[k - 1].oid[2] < OfUnit(u)[k].oid[2]
          ELSE OfUnit(u) = <<>>

\* A finished run in which a unit failed to parse and a later unit
\* contributed symbols.
ScanWentOnAfterFailure ==
    /\ pc = "done"
    /\ \E u \in 1..Len(units) :
          /\ ~units[u].parses
          /\ \E k \in 1..Len(all_symbols) : all_symbols[k].oid[1] > u

\* C10: after enrichment every name in a symbol's type_references is in the
\* definitions set of the symbol's unit; a typedef whose canonicalized
\* underlying type names no definition has no reference.
ReferencesAreDefinitions ==
    \A k \in 1..Len(all_symbols) :
       LET s == all_symbols[k]
       IN  /\ Range(s.type_references) \subseteq definitions[s.oid[1]]
           /\ (s.type = "typedef" /\ Canon(s.underlying) \notin definitions[s.oid[1]])
                 => ~s.has_refs /\ s.type_references = <<>>

\* typedef unsigned int M; scanned next to a symbol that has a reference, in
\* a unit with a function whose body names a type that is no definition.
TypedefWithoutReference ==
    /\ \E k \in 1..Len(all_symbols) :
          /\ all_symbols[k].type = "typedef"
          /\ all_symbols[k].underlying = tUnsignedInt
    /\ \E k \in 1..Len(all_symbols) : all_symbols[k].type_references # <<>>
    /\ \E u \in 1..ui : \E i \in 1..Len(units[u].nodes) :
          /\ units[u].parses /\ Emits(units[u].nodes[i])
          /\ ~(units[u].nodes[i].type_refs \subseteq definitions[u])

\* The positions in the merged list of the symbols named n.
Named(n) == {i \in 1..Len(symbols) : symbols[i].name = n}
\* The symbol named n that comes last in merge order.
LastNamed(n) == symbols[CHOOSE i \in Named(n) : \A j \in Named(n) : j <= i]

\* C11: the lookup of bundle assembly is keyed by name alone: a reference
\* to a name that several merged symbols share resolves, from any target, to
\* the one that comes last in merge order, and an earlier symbol of that
\* name is in a bundle only as its target.
NameLookupLastWins ==
    /\ Merged =>
          /\ DOMAIN symbol_map = {symbols[i].name : i \in 1..Len(symbols)}
          /\ \A n \in DOMAIN symbol_map : symbol_map[n] = LastNamed(n)
    /\ ti > 0 =>
          /\ \A n \in DirectNames(Target) :
                Named(n) # {} => \E k \in 1..Len(unique_defs) : unique_defs[k] = LastNamed(n)
          /\ \A k \in 1..Len(unique_defs) :
                \/ unique_defs[k] = Target
                \/ unique_defs[k] = LastNamed(unique_defs[k].name)

\* A bundle built for a target that references a name which two merged
\* symbols of different kinds share, the target being neither of them.
SharedNameReferenced ==
    /\ ti > 0
    /\ \E n \in Range(Target.type_references) :
          /\ n # Target.name
          /\ \E i, j \in Named(n) : i < j /\ symbols[i].type # symbols[j].type
          /\ \E k \in 1..Len(unique_defs) : unique_defs[k] = LastNamed(n)

====
